---------------------------- MODULE Spec2Model ----------------------------
(***************************************************************************)
(* MSubdirData (src/core/subdirdata.cpp): the repodata cache of one        *)
(* channel subdirectory.  load() decides from the age of the json cache    *)
(* file whether it can be used or a download has to be started;            *)
(* finalize_transfer() commits the finished download to the cache file.    *)
(*                                                                         *)
(* Text (file contents, urls, header values) is a sequence of one-         *)
(* character strings, so that the byte-level routines (the header scan,    *)
(* the splice of the header into the payload, the regex on cache-control)  *)
(* are modelled by what they do to the bytes.                              *)
(***************************************************************************)
EXTENDS Integers, Sequences, FiniteSets, TLC

\* ------------------------------------------------------------------ bounds

\* File-clock ticks run from 0 to MaxTime; the session starts at StartTime, so
\* that a cache file can carry a modification time in the future.
MaxTime == 4
StartTime == 1
\* load() is called at most MaxLoads times.
MaxLoads == 2
\* Ticks of the file clock per second (the real clock has 10^9; 2 keeps the
\* truncation of duration_cast<seconds> observable).
TicksPerSecond == 2

\* ------------------------------------------------------------------- text

Q == "\""
BS == "\\"

\* The characters the model uses, in ASCII order (std::string compares bytes).
Chars ==
    << " ", "\"", ",", "-", ".", "/", "0", "1", "2", "3", "4", "5", "6", "7",
       "8", "9", ":", "=", "?", "B", "E", "M", "W", "Z", "\\", "_", "a", "b",
       "c", "d", "e", "f", "g", "h", "i", "j", "k", "l", "m", "n", "o", "p",
       "q", "r", "s", "t", "u", "v", "w", "x", "y", "z", "{", "}" >>

CharCode(c) == CHOOSE i \in 1..Len(Chars) : Chars[i] = c

DigitChars == << "0", "1", "2", "3", "4", "5", "6", "7", "8", "9" >>

IsDigit(c) == \E i \in 1..10 : DigitChars[i] = c

DigitVal(c) == (CHOOSE i \in 1..10 : DigitChars[i] = c) - 1

\* std::string::operator< : lexicographic on bytes.
RECURSIVE LexLess(_, _)
LexLess(a, b) ==
    IF b = << >> THEN FALSE
    ELSE IF a = << >> THEN TRUE
    ELSE IF a[1] # b[1] THEN CharCode(a[1]) < CharCode(b[1])
    ELSE LexLess(Tail(a), Tail(b))

\* starts_with(str, prefix)
starts_with(s, p) ==
    /\ Len(s) >= Len(p)
    /\ SubSeq(s, 1, Len(p)) = p

\* ends_with(str, suffix)
ends_with(s, p) ==
    /\ Len(s) >= Len(p)
    /\ SubSeq(s, Len(s) - Len(p) + 1, Len(s)) = p

\* ------------------------------------------------------------------- json
\* A json value: null, a string, a number or an object.  An object is a
\* function from its keys to its values (nlohmann::json keeps an object in
\* a std::map, ordered by key).

JNull == [t |-> "null"]
JStr(s) == [t |-> "str", v |-> s]
JNum(n) == [t |-> "num", v |-> n]
JObj(m) == [t |-> "obj", v |-> m]

EmptyMap == [k \in {} |-> JNull]

MapPut(m, k, x) == [j \in DOMAIN m \cup {k} |-> IF j = k THEN x ELSE m[j]]

\* json::size(): 0 for null, the number of members of an object, 1 otherwise.
JsonSize(j) ==
    IF j.t = "null" THEN 0
    ELSE IF j.t = "obj" THEN Cardinality(DOMAIN j.v)
    ELSE 1

ParseFail == [ok |-> FALSE, pos |-> 0, val |-> JNull]

RECURSIVE SkipWs(_, _)
SkipWs(s, i) ==
    IF i <= Len(s) /\ s[i] = " " THEN SkipWs(s, i + 1) ELSE i

\* The body of a string from position i (after the opening quote) to the
\* closing quote, escapes decoded.
RECURSIVE ScanString(_, _, _)
ScanString(s, i, acc) ==
    IF i > Len(s) THEN ParseFail
    ELSE IF s[i] = Q THEN [ok |-> TRUE, pos |-> i + 1, val |-> JStr(acc)]
    ELSE IF s[i] = BS
         THEN IF i + 1 <= Len(s) /\ s[i + 1] \in {Q, BS, "/"}
              THEN ScanString(s, i + 2, Append(acc, s[i + 1]))
              ELSE ParseFail
    ELSE ScanString(s, i + 1, Append(acc, s[i]))

RECURSIVE ScanNumber(_, _, _)
ScanNumber(s, i, acc) ==
    IF i <= Len(s) /\ IsDigit(s[i])
    THEN ScanNumber(s, i + 1, acc * 10 + DigitVal(s[i]))
    ELSE [ok |-> TRUE, pos |-> i, val |-> JNum(acc)]

RECURSIVE ParseValue(_, _)
RECURSIVE ParseMembers(_, _, _)

\* The value that starts at position i (whitespace skipped).
ParseValue(s, i0) ==
    LET i == SkipWs(s, i0) IN
    IF i > Len(s) THEN ParseFail
    ELSE IF s[i] = Q THEN ScanString(s, i + 1, << >>)
    ELSE IF IsDigit(s[i]) THEN ScanNumber(s, i, 0)
    ELSE IF s[i] = "{"
         THEN LET j == SkipWs(s, i + 1) IN
              IF j <= Len(s) /\ s[j] = "}"
              THEN [ok |-> TRUE, pos |-> j + 1, val |-> JObj(EmptyMap)]
              ELSE ParseMembers(s, j, EmptyMap)
    ELSE ParseFail

\* The members of an object from position i on: "key" : value, separated by
\* commas, closed by a brace.  A repeated key keeps its last value.
ParseMembers(s, i0, m) ==
    LET i == SkipWs(s, i0) IN
    IF i > Len(s) \/ s[i] # Q THEN ParseFail
    ELSE LET k == ScanString(s, i + 1, << >>) IN
         IF ~k.ok THEN ParseFail
         ELSE LET c == SkipWs(s, k.pos) IN
              IF c > Len(s) \/ s[c] # ":" THEN ParseFail
              ELSE LET x == ParseValue(s, c + 1) IN
                   IF ~x.ok THEN ParseFail
                   ELSE LET e == SkipWs(s, x.pos)
                            m2 == MapPut(m, k.val.v, x.val)
                        IN  IF e > Len(s) THEN ParseFail
                            ELSE IF s[e] = "," THEN ParseMembers(s, e + 1, m2)
                            ELSE IF s[e] = "}"
                                 THEN [ok |-> TRUE, pos |-> e + 1, val |-> JObj(m2)]
                            ELSE ParseFail

\* nlohmann::json::parse: the whole text must be one value.
JsonParse(s) ==
    LET r == ParseValue(s, 1) IN
    IF r.ok /\ SkipWs(s, r.pos) = Len(s) + 1 THEN r ELSE ParseFail

\* The escaping json::dump applies to a string.
RECURSIVE Escape(_)
Escape(s) ==
    IF s = << >> THEN << >>
    ELSE IF s[1] \in {Q, BS} THEN << BS, s[1] >> \o Escape(Tail(s))
    ELSE << s[1] >> \o Escape(Tail(s))

RECURSIVE Digits(_)
Digits(n) ==
    IF n < 10 THEN << DigitChars[n + 1] >>
    ELSE Digits(n \div 10) \o << DigitChars[(n % 10) + 1] >>

\* The keys of a std::map in iteration order.
RECURSIVE SortedKeys(_)
SortedKeys(S) ==
    IF S = {} THEN << >>
    ELSE LET k == CHOOSE x \in S : \A y \in S \ {x} : LexLess(x, y)
         IN  << k >> \o SortedKeys(S \ {k})

RECURSIVE JsonDump(_)
RECURSIVE DumpMembers(_, _)

\* json::dump() with no indentation.
JsonDump(j) ==
    IF j.t = "null" THEN << "n", "u", "l", "l" >>
    ELSE IF j.t = "str" THEN << Q >> \o Escape(j.v) \o << Q >>
    ELSE IF j.t = "num" THEN Digits(j.v)
    ELSE << "{" >> \o DumpMembers(j.v, SortedKeys(DOMAIN j.v)) \o << "}" >>

DumpMembers(m, ks) ==
    IF ks = << >> THEN << >>
    ELSE << Q >> \o Escape(ks[1]) \o << Q, ":" >> \o JsonDump(m[ks[1]])
         \o (IF Len(ks) > 1 THEN << "," >> ELSE << >>)
         \o DumpMembers(m, Tail(ks))

\* ---------------------------------------------------------- program text

FilePrefix == << "f", "i", "l", "e", ":", "/", "/" >>
Bz2Suffix == << ".", "b", "z", "2" >>
MaxAgeKey == << "m", "a", "x", "-", "a", "g", "e", "=" >>

K_url == << "_", "u", "r", "l" >>
K_etag == << "_", "e", "t", "a", "g" >>
K_mod == << "_", "m", "o", "d" >>
K_cache_control ==
    << "_", "c", "a", "c", "h", "e", "_", "c", "o", "n", "t", "r", "o", "l" >>

\* The two cache files of the subdirectory.
m_json_fn == "json_fn"
m_solv_fn == "solv_fn"

\* ------------------------------------------------------------ environment

UrlFile == FilePrefix \o << "a" >>
UrlHttp == << "h", ":", "/", "/", "a" >>
UrlBz2 == << "h", ":", "/", "/", "a" >> \o Bz2Suffix
Urls == {UrlFile, UrlHttp, UrlBz2}

\* Context::instance().local_repodata_ttl
TtlValues == {0, 1, 2}

\* Response headers a transfer can report: etag, last-modified, cache-control.
Hdr1 ==
    [etag |-> << "W", "/", Q, "e", Q >>,
     mod |-> << "M" >>,
     cache_control |-> << "m", "a", "x", "-", "a", "g", "e", "=", "1" >>]
Hdr2 ==
    [etag |-> << "E" >>,
     mod |-> << "M" >>,
     cache_control |-> << "n", "o", "-", "c", "a", "c", "h", "e" >>]
HdrNone == [etag |-> << >>, mod |-> << >>, cache_control |-> << >>]
Headers == {Hdr1, Hdr2}

\* Payloads a transfer can stage: a repodata object, the empty object, and
\* a bzip2 stream of the first.
PayloadPkg == << "{", Q, "p", "k", "g", Q, ":", "1", "}" >>
PayloadEmptyObject == << "{", "}" >>
BzMagic == << "B", "Z", "h" >>

RECURSIVE Reverse(_)
Reverse(s) == IF s = << >> THEN << >> ELSE Reverse(Tail(s)) \o << s[1] >>

\* A stand-in for the bzip2 coding: the magic, then the bytes in reverse.
BzEncode(s) == BzMagic \o Reverse(s)
PayloadBz == BzEncode(PayloadPkg)

\* A url that ends in .bz2 serves the compressed file, any other the json.
PayloadsOf(url) ==
    IF ends_with(url, << ".", "b", "z", "2" >>)
    THEN {PayloadBz}
    ELSE {PayloadPkg, PayloadEmptyObject}

\* What a finished transfer reports and has written to the staging file.
\* A file:// transfer reports status 0 and no response headers; an http
\* transfer that got a response reports its status and, with a 200, the
\* headers and the body; a transfer that broke reports a result code.
Responses(url) ==
    IF starts_with(url, FilePrefix)
    THEN {[result |-> 0, http_status |-> 0, hdr |-> HdrNone, body |-> b] :
             b \in PayloadsOf(url)}
         \cup {[result |-> 1, http_status |-> 0, hdr |-> HdrNone, body |-> << >>]}
    ELSE {[result |-> 0, http_status |-> 200, hdr |-> h, body |-> b] :
             h \in Headers, b \in PayloadsOf(url)}
         \cup {[result |-> 0, http_status |-> st, hdr |-> HdrNone, body |-> << >>] :
                 st \in {204, 304, 404}}
         \cup {[result |-> 1, http_status |-> 0, hdr |-> HdrNone, body |-> << >>]}

\* ------------------------------------------------------------------ state

VARIABLES
    now,                  \* the file clock
    m_repodata_url,       \* the subdirectory's repodata url
    ttl,                  \* Context::instance().local_repodata_ttl
    offline,              \* Context::instance().offline
    cache_dir,            \* whether the cache directory exists
    json_file,            \* the file m_json_fn: [exists, mtime, content]
    solv_file,            \* the file m_solv_fn: [exists, mtime]
    m_loaded,
    m_download_complete,
    m_json_cache_valid,
    m_solv_cache_valid,
    m_mod_etag,           \* a json value
    m_target,             \* the DownloadTarget, or NoTarget
    m_temp_file,          \* the staging TemporaryFile, or NoTemp
    pc,                   \* idle | armed | completed | exited
    loads,                \* the calls of load() so far
    last,                 \* the call that has just returned: [op, ret]
    file_ops              \* how that call's file operations went:
                          \* [open, raw, io], see FinalizeNewContent

config == << m_repodata_url, ttl, offline >>
files == << cache_dir, json_file, solv_file >>
flags == << m_loaded, m_download_complete, m_json_cache_valid, m_solv_cache_valid >>
vars ==
    << now, m_repodata_url, ttl, offline, cache_dir, json_file, solv_file,
       m_loaded, m_download_complete, m_json_cache_valid, m_solv_cache_valid,
       m_mod_etag, m_target, m_temp_file, pc, loads, last, file_ops >>

NoFile == [exists |-> FALSE, mtime |-> 0, content |-> << >>]
NoSolv == [exists |-> FALSE, mtime |-> 0]
NoTarget == [set |-> FALSE]
NoTemp == [owned |-> FALSE, content |-> << >>]
NoCall == [op |-> "none", ret |-> "none"]
\* The call opened no json cache file, ran no decompression and copied nothing.
NoOutcome == [open |-> "not_run", raw |-> "not_run", io |-> "not_run"]

\* ------------------------------------------------------ FreshnessEvaluator

\* fs::file_time_type::duration::max(), the age of a file that cannot be read.
DurationMax == 1000000000

\* INT_MAX, the largest value std::stoi returns.
IntMaxDigits == << "2", "1", "4", "7", "4", "8", "3", "6", "4", "7" >>

\* check_cache(cache_file, ref): ref - last_write_time, or duration::max().
check_cache(f, ref) ==
    IF f.exists THEN ref - f.mtime ELSE DurationMax

\* std::chrono::duration_cast<std::chrono::seconds>(d).count(): the ticks in
\* whole seconds, truncated toward zero.
duration_seconds(d) ==
    IF d >= 0 THEN d \div TicksPerSecond ELSE -((-d) \div TicksPerSecond)

\* forbid_cache testing the end of the url instead of its start.
forbid_cache_suffix == ends_with(m_repodata_url, FilePrefix)

\* forbid_cache()
forbid_cache == starts_with(m_repodata_url, FilePrefix)

RECURSIVE DigitRun(_, _)
DigitRun(s, i) ==
    IF i <= Len(s) /\ IsDigit(s[i]) THEN << s[i] >> \o DigitRun(s, i + 1)
    ELSE << >>

RECURSIVE StripZeros(_)
StripZeros(ds) ==
    IF Len(ds) > 1 /\ ds[1] = "0" THEN StripZeros(Tail(ds)) ELSE ds

\* std::stoi on a run of digits: the number, or std::out_of_range when it
\* does not fit an int.
Stoi(ds) ==
    LET z == StripZeros(ds) IN
    IF Len(z) > 10 \/ (Len(z) = 10 /\ LexLess(IntMaxDigits, z))
    THEN [throws |-> TRUE, v |-> 0]
    ELSE [throws |-> FALSE, v |-> ScanNumber(z, 1, 0).val.v]

\* Whether the regex max-age=(\d+) matches at position i.
MaxAgeMatchAt(val, i) ==
    /\ i + Len(MaxAgeKey) <= Len(val)
    /\ SubSeq(val, i, i + Len(MaxAgeKey) - 1) = MaxAgeKey
    /\ IsDigit(val[i + Len(MaxAgeKey)])

\* get_cache_control_max_age(val): the first match's digits, or 0.
get_cache_control_max_age(val) ==
    LET at == {i \in 1..Len(val) : MaxAgeMatchAt(val, i)} IN
    IF at = {} THEN [throws |-> FALSE, v |-> 0]
    ELSE LET i == CHOOSE k \in at : \A j \in at : k <= j
         IN  Stoi(DigitRun(val, i + Len(MaxAgeKey)))

\* m_mod_etag.value("_cache_control", std::string("")): the member, the
\* default when it is absent, a type_error when it is not a string.
cache_control_value(me) ==
    IF K_cache_control \notin DOMAIN me.v THEN [throws |-> FALSE, v |-> << >>]
    ELSE IF me.v[K_cache_control].t # "str" THEN [throws |-> TRUE, v |-> << >>]
    ELSE [throws |-> FALSE, v |-> me.v[K_cache_control].v]

\* load()'s max_age, from the ttl and the cached cache-control header.
max_age(me) ==
    IF ttl > 1 THEN [throws |-> FALSE, v |-> ttl]
    ELSE IF ttl = 1
         THEN LET el == cache_control_value(me) IN
              IF el.throws THEN [throws |-> TRUE, v |-> 0]
              ELSE get_cache_control_max_age(el.v)
    ELSE [throws |-> FALSE, v |-> 0]

\* cache_valid with the comparison the wrong way round.
cache_valid_swapped(maxAge, cache_age_seconds) ==
    cache_age_seconds > maxAge \/ offline

\* load()'s test "cache valid!".
cache_valid(maxAge, cache_age_seconds) ==
    maxAge > cache_age_seconds \/ offline

\* must_fetch without the exception for local file urls.
must_fetch_online_only == ~offline

\* load()'s test when there is no usable cache file: start a download?
must_fetch == ~offline \/ forbid_cache

\* solv_usable with the ages compared the wrong way round.
solv_usable_swapped(solv_age, cache_age) ==
    solv_age # DurationMax /\ cache_age <= solv_age

\* The test load() and finalize_transfer() make before using the solv file.
solv_usable(solv_age, cache_age) ==
    solv_age # DurationMax /\ solv_age <= cache_age

\* ------------------------------------------------------------- ByteScanner

\* The body of extract_subjson's loop, on the scan's variables: a quote
\* that is not escaped is counted, the 16th ends the scan with "} appended.
scan_step(st, next) ==
    IF st.done THEN st
    ELSE IF next = Q
         THEN LET i2 == IF ~st.escaped THEN st.i + 1 ELSE st.i IN
              IF i2 = 4 * 4
              THEN [i |-> i2, escaped |-> FALSE, done |-> TRUE,
                    result |-> st.result \o << Q, "}" >>]
              ELSE [i |-> i2, escaped |-> FALSE, done |-> FALSE,
                    result |-> Append(st.result, next)]
    ELSE IF next = BS
         THEN [st EXCEPT !.escaped = TRUE, !.result = Append(@, next)]
    ELSE [st EXCEPT !.result = Append(@, next)]

\* The loop `while (s.get(next))` over the bytes lo..hi, in two halves.
RECURSIVE scan_loop(_, _, _, _)
scan_loop(s, lo, hi, st) ==
    IF lo > hi THEN st
    ELSE IF lo = hi THEN scan_step(st, s[lo])
    ELSE LET mid == (lo + hi) \div 2
             left == scan_loop(s, lo, mid, st)
         IN  IF left.done THEN left ELSE scan_loop(s, mid + 1, hi, left)

\* extract_subjson: the text up to the 16th unescaped quote, closed by "};
\* the empty string when the stream ends first.
extract_subjson(s) ==
    LET st == scan_loop(s, 1, Len(s),
                        [i |-> 0, escaped |-> FALSE, done |-> FALSE, result |-> << >>])
    IN  IF st.done THEN st.result ELSE << >>

\* read_mod_and_etag(): the parsed head of the json cache file, or null.
read_mod_and_etag(f) ==
    LET json == extract_subjson(f.content)
        result == JsonParse(json)
    IN  IF result.ok THEN result.val ELSE JNull

\* ------------------------------------------------------ finalize's helpers

\* The m_mod_etag finalize_transfer() builds from the url and the target.
header_of(url, t) ==
    JObj(MapPut(MapPut(MapPut(MapPut(EmptyMap,
        K_url, JStr(url)),
        K_etag, JStr(t.etag)),
        K_mod, JStr(t.mod)),
        K_cache_control, JStr(t.cache_control)))

\* temp_json: the dumped header with its closing brace overwritten by a comma.
splice_prefix(me) ==
    LET d == JsonDump(me) IN SubSeq(d, 1, Len(d) - 1) \o << "," >>

\* temp_file.seekg(1) and the copy: the staged bytes from the second on.
staged_tail(staged) ==
    IF Len(staged) <= 1 THEN << >> ELSE SubSeq(staged, 2, Len(staged))

\* What finalize_transfer() writes to the json cache file.
final_content(me, staged) == splice_prefix(me) \o staged_tail(staged)

\* -------------------------------------------------------------- Decompressor

\* How decompress::raw can end: archive_read_open_filename fails,
\* archive_read_next_header fails, archive_read_data fails, or every block
\* is read.  Which one it is depends on the library and on damage to the
\* stream that the staged bytes do not show; an empty file has no header.
IsBz(c) == starts_with(c, BzMagic)

raw_outcomes(c) ==
    {"open_failed", "header_failed"}
    \cup (IF c # << >> THEN {"data_failed", "ok"} ELSE {})

\* The bytes decompress::raw has written to `out` when it returns.
raw_output(c, outcome) ==
    IF outcome # "ok" THEN << >>
    ELSE IF IsBz(c) THEN Reverse(SubSeq(c, Len(BzMagic) + 1, Len(c)))
    ELSE c

\* MSubdirData::decompress(): m_temp_file after the swap.
decompress(temp, outcome) ==
    [owned |-> TRUE, content |-> raw_output(temp.content, outcome)]

\* ------------------------------------------------------------ construction

\* The cache files a session can find: none, or files an earlier session
\* wrote (finalize_transfer's output for some response), or a damaged file.
EarlierTarget(h) ==
    [set |-> TRUE, etag |-> h.etag, mod |-> h.mod, cache_control |-> h.cache_control]

DamagedContent == << "{", Q, "_", "u", "r", "l", Q, ":" >>

InitJsonContents(url) ==
    {final_content(header_of(url, EarlierTarget(h)), PayloadPkg) : h \in Headers}
    \cup {DamagedContent}

\* The member initializers of m_json_cache_valid and m_solv_cache_valid.
ValidFlagsInit ==
    /\ m_json_cache_valid = FALSE
    /\ m_solv_cache_valid = FALSE

\* The world a fresh MSubdirData is constructed in.
InitWorld ==
    /\ now = StartTime
    /\ m_repodata_url \in Urls
    /\ ttl \in TtlValues
    /\ offline \in BOOLEAN
    /\ cache_dir \in BOOLEAN
    /\ json_file \in
          {NoFile} \cup
          (IF cache_dir
           THEN {[exists |-> TRUE, mtime |-> t, content |-> c] :
                    t \in 0..MaxTime, c \in InitJsonContents(m_repodata_url)}
           ELSE {})
    /\ solv_file \in
          {NoSolv} \cup
          (IF cache_dir
           THEN {[exists |-> TRUE, mtime |-> t] : t \in 0..MaxTime}
           ELSE {})

\* MSubdirData::MSubdirData
Constructed ==
    /\ m_loaded = FALSE
    /\ m_download_complete = FALSE
    /\ m_mod_etag = JNull
    /\ m_target = NoTarget
    /\ m_temp_file = NoTemp
    /\ pc = "idle"
    /\ loads = 0
    /\ last = NoCall
    /\ file_ops = NoOutcome

Init == InitWorld /\ Constructed /\ ValidFlagsInit

\* ------------------------------------------------------------------ load()

\* create_target(mod_etag)
create_target(mod_etag) ==
    /\ m_temp_file' = [owned |-> TRUE, content |-> << >>]
    /\ m_target' =
          [set |-> TRUE, headers |-> mod_etag, result |-> 0, http_status |-> 0,
           etag |-> << >>, mod |-> << >>, cache_control |-> << >>]
    /\ pc' = "armed"

\* load(): "Using cache".
LoadAccept(me, cache_age) ==
    /\ m_mod_etag' = me
    /\ m_loaded' = TRUE
    /\ m_json_cache_valid' = TRUE
    /\ m_solv_cache_valid' =
          IF solv_usable(check_cache(solv_file, now), cache_age)
          THEN TRUE
          ELSE m_solv_cache_valid
    /\ last' = [op |-> "load", ret |-> "true"]
    /\ UNCHANGED << m_download_complete, m_target, m_temp_file, pc >>

\* LoadArm handing the transfer no cached header fields.
LoadArm_unconditional(me) ==
    /\ m_mod_etag' = me
    /\ create_target(JNull)
    /\ last' = [op |-> "load", ret |-> "true"]
    /\ UNCHANGED flags

\* load(): a refresh is armed.
LoadArm(me) ==
    /\ m_mod_etag' = me
    /\ create_target(me)
    /\ last' = [op |-> "load", ret |-> "true"]
    /\ UNCHANGED flags

\* load(): offline and nothing to use.
LoadNothing ==
    /\ last' = [op |-> "load", ret |-> "true"]
    /\ UNCHANGED << flags, m_mod_etag, m_target, m_temp_file, pc >>

\* load(): json::value() or std::stoi throws out of the call.
LoadThrows(me) ==
    /\ m_mod_etag' = me
    /\ last' = [op |-> "load", ret |-> "throw"]
    /\ UNCHANGED << flags, m_target, m_temp_file, pc >>

Load ==
    /\ pc = "idle"
    /\ loads < MaxLoads
    /\ loads' = loads + 1
    /\ file_ops' = NoOutcome
    /\ LET cache_age == check_cache(json_file, now) IN
       IF cache_age # DurationMax /\ ~forbid_cache
       THEN LET me == read_mod_and_etag(json_file) IN
            IF JsonSize(me) # 0
            THEN LET ma == max_age(me) IN
                 IF ma.throws THEN LoadThrows(me)
                 ELSE IF cache_valid(ma.v, duration_seconds(cache_age))
                      THEN LoadAccept(me, cache_age)
                      ELSE LoadArm(me)
            ELSE LoadArm(me)
       ELSE IF must_fetch
            THEN LoadArm(m_mod_etag)
            ELSE LoadNothing
    /\ UNCHANGED << now, config, files >>

\* ---------------------------------------------------------- the transfer

\* The transfer layer finishes the download: it fills in the target and has
\* written the body to the staging file; finalize_transfer() is due.
TransferComplete ==
    /\ pc = "armed"
    /\ \E r \in Responses(m_repodata_url) :
          /\ m_target' =
                [m_target EXCEPT !.result = r.result,
                                 !.http_status = r.http_status,
                                 !.etag = r.hdr.etag,
                                 !.mod = r.hdr.mod,
                                 !.cache_control = r.hdr.cache_control]
          /\ m_temp_file' = [m_temp_file EXCEPT !.content = r.body]
    /\ pc' = "completed"
    /\ last' = NoCall
    /\ file_ops' = NoOutcome
    /\ UNCHANGED << now, config, files, flags, m_mod_etag, loads >>

\* ------------------------------------------------------ finalize_transfer()

\* transfer_failed looking at the result code only.
transfer_failed_result_only(t) == t.result # 0

\* The first test: the transfer failed.
transfer_failed(t) == t.result # 0 \/ t.http_status >= 400

\* status_handled taking every status below 400.
status_handled_below_400(t) == t.http_status < 400

\* The status codes finalize_transfer() handles.
status_handled(t) == t.http_status \in {0, 200, 304}

\* touch by opening the file for writing: it is created or emptied.
touch_by_open(f) == [exists |-> TRUE, mtime |-> now, content |-> << >>]

\* utimensat(path, NULL): the file's times become the current time; a file
\* that does not exist stays absent.
touch(f) == IF f.exists THEN [f EXCEPT !.mtime = now] ELSE f

\* "Unable to retrieve repodata": m_loaded = false; return false.
FinalizeFailed ==
    /\ m_loaded' = FALSE
    /\ pc' = "idle"
    /\ last' = [op |-> "finalize_transfer", ret |-> "false"]
    /\ file_ops' = NoOutcome
    /\ UNCHANGED << files, m_download_complete, m_json_cache_valid,
                    m_solv_cache_valid, m_mod_etag, m_temp_file >>

\* throw std::runtime_error("Unhandled HTTP code: ...")
FinalizeUnhandled ==
    /\ pc' = "idle"
    /\ last' = [op |-> "finalize_transfer", ret |-> "throw"]
    /\ file_ops' = NoOutcome
    /\ UNCHANGED << files, flags, m_mod_etag, m_temp_file >>

\* FinalizeNotModified setting m_loaded without m_json_cache_valid.
FinalizeNotModified_loaded_only ==
    LET cache_age == check_cache(json_file, now)
        solv_age == check_cache(solv_file, now)
        usable == solv_usable(solv_age, cache_age)
    IN  /\ m_download_complete' = TRUE
        /\ json_file' = touch(json_file)
        /\ solv_file' = IF usable THEN touch(solv_file) ELSE solv_file
        /\ m_solv_cache_valid' = IF usable THEN TRUE ELSE m_solv_cache_valid
        /\ m_json_cache_valid' = m_json_cache_valid
        /\ m_loaded' = TRUE
        /\ m_temp_file' = NoTemp
        /\ pc' = "idle"
        /\ last' = [op |-> "finalize_transfer", ret |-> "true"]
        /\ file_ops' = NoOutcome
        /\ UNCHANGED << cache_dir, m_mod_etag >>

\* Status 304: "cache still valid".
FinalizeNotModified ==
    LET cache_age == check_cache(json_file, now)
        solv_age == check_cache(solv_file, now)
        usable == solv_usable(solv_age, cache_age)
    IN  /\ m_download_complete' = TRUE
        /\ json_file' = touch(json_file)
        /\ solv_file' = IF usable THEN touch(solv_file) ELSE solv_file
        /\ m_solv_cache_valid' = IF usable THEN TRUE ELSE m_solv_cache_valid
        /\ m_json_cache_valid' = TRUE
        /\ m_loaded' = TRUE
        /\ m_temp_file' = NoTemp
        /\ pc' = "idle"
        /\ last' = [op |-> "finalize_transfer", ret |-> "true"]
        /\ file_ops' = NoOutcome
        /\ UNCHANGED << cache_dir, m_mod_etag >>

\* Status 200 or 0, "Could not open file": exit(1).  create_cache_dir() has
\* run by then.
FinalizeOpenFailed(me) ==
    /\ m_download_complete' = TRUE
    /\ m_mod_etag' = me
    /\ cache_dir' = TRUE
    /\ pc' = "exited"
    /\ last' = [op |-> "finalize_transfer", ret |-> "exit"]
    /\ file_ops' = [open |-> "failed", raw |-> "not_run", io |-> "not_run"]
    /\ UNCHANGED << json_file, solv_file, m_loaded, m_json_cache_valid,
                    m_solv_cache_valid, m_temp_file >>

\* Status 200 or 0, decompress::raw throws "Could not read archive": the
\* json cache file has been opened (and so emptied) by then.
FinalizeDecompressThrows(me) ==
    /\ m_download_complete' = TRUE
    /\ m_mod_etag' = me
    /\ cache_dir' = TRUE
    /\ json_file' = [exists |-> TRUE, mtime |-> now, content |-> << >>]
    /\ pc' = "idle"
    /\ last' = [op |-> "finalize_transfer", ret |-> "throw"]
    /\ file_ops' = [open |-> "ok", raw |-> "data_failed", io |-> "not_run"]
    /\ UNCHANGED << solv_file, m_loaded, m_json_cache_valid,
                    m_solv_cache_valid, m_temp_file >>

\* Status 200 or 0, "Could not write out repodata file": the staging file
\* could not be read; fs::remove(m_json_fn); exit(1).
FinalizeCopyFailed(me, temp, d) ==
    /\ m_download_complete' = TRUE
    /\ m_mod_etag' = me
    /\ cache_dir' = TRUE
    /\ json_file' = NoFile
    /\ m_temp_file' = temp
    /\ pc' = "exited"
    /\ last' = [op |-> "finalize_transfer", ret |-> "exit"]
    /\ file_ops' = [open |-> "ok", raw |-> d, io |-> "read_failed"]
    /\ UNCHANGED << solv_file, m_loaded, m_json_cache_valid, m_solv_cache_valid >>

\* Status 200 or 0, to the end: `written` is what reached the json cache file.
FinalizeDone(me, written, d, io) ==
    /\ m_download_complete' = TRUE
    /\ m_mod_etag' = me
    /\ cache_dir' = TRUE
    /\ json_file' = [exists |-> TRUE, mtime |-> now, content |-> written]
    /\ m_json_cache_valid' = TRUE
    /\ m_loaded' = TRUE
    /\ m_temp_file' = NoTemp
    /\ pc' = "idle"
    /\ last' = [op |-> "finalize_transfer", ret |-> "true"]
    /\ file_ops' = [open |-> "ok", raw |-> d, io |-> io]
    /\ UNCHANGED << solv_file, m_solv_cache_valid >>

\* Status 200 or 0: the new content is spliced into the json cache file.
\* d is how decompress::raw ends, io how the file streams behave; file_ops
\* keeps both, and whether the json cache file could be opened.
FinalizeNewContent(d, io) ==
    LET me == header_of(m_repodata_url, m_target)
        temp == IF d = "not_run" THEN m_temp_file ELSE decompress(m_temp_file, d)
    IN  IF ~cache_dir THEN FinalizeOpenFailed(me)
        ELSE IF d = "data_failed" THEN FinalizeDecompressThrows(me)
        ELSE IF io = "read_failed" THEN FinalizeCopyFailed(me, temp, d)
        ELSE IF io = "write_failed" THEN FinalizeDone(me, splice_prefix(me), d, io)
        ELSE FinalizeDone(me, final_content(me, temp.content), d, io)

\* How the streams of the splice can behave: both work, the staging file
\* cannot be read, or the write to the json cache file breaks off after the
\* header.
IoOutcomes == {"ok", "read_failed", "write_failed"}

\* decompress() runs for a url that ends in .bz2.
DecompressOutcomes ==
    IF ends_with(m_repodata_url, Bz2Suffix)
    THEN raw_outcomes(m_temp_file.content)
    ELSE {"not_run"}

FinalizeTransfer ==
    /\ pc = "completed"
    /\ IF transfer_failed(m_target) THEN FinalizeFailed
       ELSE IF ~status_handled(m_target) THEN FinalizeUnhandled
       ELSE IF m_target.http_status = 304 THEN FinalizeNotModified
       ELSE \E d \in DecompressOutcomes, io \in IoOutcomes :
               FinalizeNewContent(d, io)
    /\ UNCHANGED << now, config, m_target, loads >>

\* ---------------------------------------------------------- other methods

\* cache_path looking at the solv flag first.
cache_path_solv_first ==
    IF m_solv_cache_valid THEN m_solv_fn
    ELSE IF m_json_cache_valid THEN m_json_fn
    ELSE "throw"

\* cache_path(): the path, or "throw" for std::runtime_error("Cache not loaded!").
cache_path ==
    IF m_json_cache_valid /\ m_solv_cache_valid THEN m_solv_fn
    ELSE IF m_json_cache_valid THEN m_json_fn
    ELSE "throw"

CachePath ==
    /\ pc = "idle"
    /\ last' = [op |-> "cache_path", ret |-> cache_path]
    /\ file_ops' = NoOutcome
    /\ UNCHANGED << now, config, files, flags, m_mod_etag, m_target, m_temp_file, pc, loads >>

\* clear_cache()
ClearCache ==
    /\ pc = "idle"
    /\ json_file' = NoFile
    /\ solv_file' = NoSolv
    /\ last' = [op |-> "clear_cache", ret |-> "none"]
    /\ file_ops' = NoOutcome
    /\ UNCHANGED << now, config, cache_dir, flags, m_mod_etag, m_target, m_temp_file, pc, loads >>

\* The file clock advances.
Tick ==
    /\ pc \in {"idle", "armed"}
    /\ now < MaxTime
    /\ now' = now + 1
    /\ last' = NoCall
    /\ file_ops' = NoOutcome
    /\ UNCHANGED << config, files, flags, m_mod_etag, m_target, m_temp_file, pc, loads >>

Next ==
    \/ Load
    \/ TransferComplete
    \/ FinalizeTransfer
    \/ ClearCache
    \/ Tick

Spec == Init /\ [][Next]_vars

\* cache_path() as a function of the two validity flags: a fresh object in
\* any world, with the flags drawn from all four combinations.
InitCachePath ==
    /\ InitWorld
    /\ Constructed
    /\ m_json_cache_valid \in BOOLEAN
    /\ m_solv_cache_valid \in BOOLEAN

SpecCachePath == InitCachePath /\ [][CachePath]_vars

\* ------------------------------------------- read_mod_and_etag() by itself

\* Header values a json cache file can carry: a plain one, one with quotes
\* (dumped as \") and one with a backslash (dumped as \\).
ValPlain == << "u" >>
ValQuoted == << "W", "/", Q, "e", Q >>
ValBackslash == << "a", BS, "b" >>
ScanValues == {ValPlain, ValQuoted, ValBackslash}

ScanHeaders ==
    {header_of(UrlHttp, [etag |-> e, mod |-> m, cache_control |-> c]) :
        e \in ScanValues, m \in ScanValues, c \in ScanValues}

PayloadNested ==
    << "{", Q, "o", Q, ":", "{", Q, "p", Q, ":", Q, "q", Q, "}", "}" >>
ScanPayloads == {PayloadPkg, PayloadEmptyObject, PayloadNested}

\* The files finalize_transfer() writes for these headers and payloads, and
\* every file that is the beginning of one (a write that broke off).
ScanDocs ==
    UNION {{SubSeq(final_content(h, p), 1, n) :
               n \in 0..Len(final_content(h, p))} :
           h \in ScanHeaders, p \in ScanPayloads}

InitScan ==
    /\ now = StartTime
    /\ m_repodata_url = UrlHttp
    /\ ttl = 0
    /\ offline = FALSE
    /\ cache_dir = TRUE
    /\ json_file \in {[exists |-> TRUE, mtime |-> 0, content |-> c] : c \in ScanDocs}
    /\ solv_file = NoSolv
    /\ Constructed
    /\ ValidFlagsInit

\* m_mod_etag = read_mod_and_etag(), as load() calls it.
ReadModAndEtag ==
    /\ last = NoCall
    /\ m_mod_etag' = read_mod_and_etag(json_file)
    /\ last' = [op |-> "read_mod_and_etag", ret |-> "none"]
    /\ UNCHANGED << now, config, files, flags, m_target, m_temp_file, pc,
                    loads, file_ops >>

SpecScan == InitScan /\ [][ReadModAndEtag]_vars

\* ---------------------------------------------------- max_age by itself

CcPublic == << "p", "u", "b", "l", "i", "c", ",", " " >>
CcNoCache == << "n", "o", "-", "c", "a", "c", "h", "e" >>

\* Digit strings of a max-age directive: short ones, INT_MAX, INT_MAX + 1 and
\* one of eleven digits.
DigitStrings ==
    {<< "0" >>, << "1" >>, << "1", "2", "0", "0" >>, << "0", "0", "7" >>,
     IntMaxDigits,
     << "2", "1", "4", "7", "4", "8", "3", "6", "4", "8" >>,
     << "9", "9", "9", "9", "9", "9", "9", "9", "9", "9", "9" >>}

\* cache-control headers: with and without a max-age directive.
CcValues ==
    {pre \o MaxAgeKey \o ds : pre \in {<< >>, CcPublic}, ds \in DigitStrings}
    \cup {<< >>, CcNoCache, MaxAgeKey, CcPublic \o CcNoCache}

\* Context::instance().local_repodata_ttl, negative values included.
MaxAgeTtls == {-1, 0, 1, 2, 5}

InitMaxAge ==
    /\ now = StartTime
    /\ m_repodata_url = UrlHttp
    /\ ttl \in MaxAgeTtls
    /\ offline = FALSE
    /\ cache_dir = TRUE
    /\ json_file = NoFile
    /\ solv_file = NoSolv
    /\ m_loaded = FALSE
    /\ m_download_complete = FALSE
    /\ m_mod_etag \in
          {header_of(UrlHttp, [etag |-> << "E" >>, mod |-> << "M" >>,
                               cache_control |-> c]) : c \in CcValues}
    /\ m_target = NoTarget
    /\ m_temp_file = NoTemp
    /\ pc = "idle"
    /\ loads = 0
    /\ last = NoCall
    /\ file_ops = NoOutcome
    /\ ValidFlagsInit

\* load()'s computation of max_age from the ttl and m_mod_etag: ret is
\* [throws, v], v the value of max_age when nothing is thrown.
ComputeMaxAge ==
    /\ last = NoCall
    /\ last' = [op |-> "max_age", ret |-> max_age(m_mod_etag)]
    /\ UNCHANGED << now, config, files, flags, m_mod_etag, m_target,
                    m_temp_file, pc, loads, file_ops >>

SpecMaxAge == InitMaxAge /\ [][ComputeMaxAge]_vars

\* ------------------------------------------------------------- the claims

\* A step that is one call of load() / one call of finalize_transfer().
LoadStep == loads' = loads + 1
FinalizeStep == pc = "completed" /\ pc' # "completed"

\* The url is a local file url, for which caching is forbidden.
LocalFileUrl == starts_with(m_repodata_url, FilePrefix)

\* The header fields load() extracts from the json cache file, and the
\* json cache file's age in whole seconds.
ExtractedHeader == read_mod_and_etag(json_file)
JsonAgeSeconds == duration_seconds(now - json_file.mtime)

\* The precondition of C1: the url is not cache-forbidden, the json cache
\* file exists, its header fields can be extracted, maxAge can be computed
\* and the cache age in seconds is below it.
FreshCache ==
    /\ ~LocalFileUrl
    /\ json_file.exists
    /\ JsonSize(ExtractedHeader) # 0
    /\ ~max_age(ExtractedHeader).throws
    /\ JsonAgeSeconds < max_age(ExtractedHeader).v

\* C1: a load() that finds a fresh cache (FreshCache) accepts it: it returns
\* true with m_loaded and m_json_cache_valid set, and arms no refresh: no
\* transfer target and no staging file is created.
C1_FreshCacheAccepted ==
    [][(LoadStep /\ FreshCache) =>
          /\ m_loaded'
          /\ m_json_cache_valid'
          /\ last' = [op |-> "load", ret |-> "true"]
          /\ pc' = "idle"
          /\ m_target' = m_target
          /\ m_temp_file' = m_temp_file]_vars

\* load() has just accepted a fresh cache while online, and no target exists.
C1_Witness ==
    /\ last = [op |-> "load", ret |-> "true"]
    /\ FreshCache
    /\ ~offline
    /\ m_loaded
    /\ m_json_cache_valid
    /\ m_target = NoTarget
    /\ m_temp_file = NoTemp

\* C2: cache_path() throws "Cache not loaded!" exactly when
\* m_json_cache_valid is false (also when only m_solv_cache_valid is true),
\* returns the solv path exactly when both flags are true, and the json
\* path exactly when only m_json_cache_valid is true.
C2_CachePathByFlags ==
    last.op = "cache_path" =>
        /\ (last.ret = "throw") <=> ~m_json_cache_valid
        /\ (last.ret = m_solv_fn) <=> (m_json_cache_valid /\ m_solv_cache_valid)
        /\ (last.ret = m_json_fn) <=> (m_json_cache_valid /\ ~m_solv_cache_valid)

\* cache_path() has thrown with only the solv flag set.
C2_Witness ==
    /\ last = [op |-> "cache_path", ret |-> "throw"]
    /\ m_solv_cache_valid
    /\ ~m_json_cache_valid

\* C3: for a local file url, a load() while online arms a refresh whatever
\* json cache file exists, and accepts nothing: the flags stay as they were.
C3_ForbiddenOnlineArms ==
    [][(LoadStep /\ LocalFileUrl /\ ~offline) =>
          /\ pc' = "armed"
          /\ m_target'.set
          /\ m_temp_file'.owned
          /\ last' = [op |-> "load", ret |-> "true"]
          /\ UNCHANGED flags]_vars

\* A refresh was armed for a local file url, online, although a json cache
\* file with good headers and of age 0 exists under a ttl of 2 seconds.
C3_Witness ==
    /\ last = [op |-> "load", ret |-> "true"]
    /\ LocalFileUrl
    /\ ~offline
    /\ pc = "armed"
    /\ ~m_loaded
    /\ json_file.exists
    /\ JsonSize(ExtractedHeader) # 0
    /\ json_file.mtime = now
    /\ ttl = 2

\* C4 as stated: for a local file url, a load() while offline with no json
\* cache file returns true with m_loaded false and arms no refresh.
C4_Original ==
    [][(LoadStep /\ LocalFileUrl /\ offline /\ ~json_file.exists) =>
          /\ last' = [op |-> "load", ret |-> "true"]
          /\ ~m_loaded'
          /\ pc' = "idle"
          /\ m_target' = m_target
          /\ m_temp_file' = m_temp_file]_vars

\* C4 as amended: for a local file url, a load() while offline arms a
\* refresh all the same and returns true with the flags as they were;
\* "nothing loaded" with no refresh armed is the outcome of a load() while
\* offline for a url that is not a local file url and has no json cache file.
C4_ForbiddenOfflineArms ==
    [][/\ (LoadStep /\ LocalFileUrl /\ offline) =>
             /\ pc' = "armed"
             /\ m_target'.set
             /\ m_temp_file'.owned
             /\ last' = [op |-> "load", ret |-> "true"]
             /\ UNCHANGED flags
       /\ (LoadStep /\ ~LocalFileUrl /\ offline /\ ~json_file.exists) =>
             /\ pc' = "idle"
             /\ last' = [op |-> "load", ret |-> "true"]
             /\ UNCHANGED << flags, m_target, m_temp_file >>]_vars

\* A refresh was armed offline for a local file url with no json cache file.
C4_Witness ==
    /\ last = [op |-> "load", ret |-> "true"]
    /\ LocalFileUrl
    /\ offline
    /\ ~json_file.exists
    /\ pc = "armed"
    /\ m_target.set
    /\ ~m_loaded

\* C5: a step that sets m_solv_cache_valid finds the solv file present and
\* of an age (now - mtime) not above the json cache file's age; a json
\* cache file that is missing has the infinite age of check_cache.
C5_SolvValidOnlyIfNotOlder ==
    [][(~m_solv_cache_valid /\ m_solv_cache_valid') =>
          /\ solv_file.exists
          /\ json_file.exists => (now - solv_file.mtime) <= (now - json_file.mtime)]_vars

\* A status-304 finalize_transfer() of the first refresh has set
\* m_solv_cache_valid with both files present.
C5_Witness ==
    /\ last = [op |-> "finalize_transfer", ret |-> "true"]
    /\ m_target.http_status = 304
    /\ loads = 1
    /\ m_solv_cache_valid
    /\ solv_file.exists
    /\ json_file.exists

\* C6: whenever cache_path() returns the solv path and both files exist,
\* the solv file is not older than the json cache file.
C6_SolvPathNotOlder ==
    (cache_path = m_solv_fn /\ json_file.exists /\ solv_file.exists) =>
        solv_file.mtime >= json_file.mtime

\* C7: a finalize_transfer() of a transfer with result 0 and status 304
\* leaves the json cache file's content as it is, creates no json cache
\* file, sets the file's modification time to now and returns true.
C7_NotModifiedKeepsContent ==
    [][(FinalizeStep /\ m_target.result = 0 /\ m_target.http_status = 304) =>
          /\ json_file'.exists = json_file.exists
          /\ json_file'.content = json_file.content
          /\ json_file.exists => json_file'.mtime = now
          /\ last' = [op |-> "finalize_transfer", ret |-> "true"]]_vars

\* A status-304 finalize_transfer() has returned true on a json cache file
\* with content, now of age 0.
C7_Witness ==
    /\ last = [op |-> "finalize_transfer", ret |-> "true"]
    /\ m_target.result = 0
    /\ m_target.http_status = 304
    /\ json_file.exists
    /\ json_file.content # << >>
    /\ json_file.mtime = now
    /\ now > StartTime

\* C8: a finalize_transfer() of a transfer with a nonzero result or a
\* status of 400 or more sets m_loaded to false, returns false and leaves
\* the cache directory and both cache files as they are.
C8_FailedTransferTouchesNoFile ==
    [][(FinalizeStep /\ (m_target.result # 0 \/ m_target.http_status >= 400)) =>
          /\ ~m_loaded'
          /\ last' = [op |-> "finalize_transfer", ret |-> "false"]
          /\ UNCHANGED files]_vars

\* finalize_transfer() has returned false on a status 404, with a json
\* cache file on disk.
C8_Witness ==
    /\ last = [op |-> "finalize_transfer", ret |-> "false"]
    /\ m_target.result = 0
    /\ m_target.http_status = 404
    /\ json_file.exists
    /\ ~m_loaded

\* C9: a finalize_transfer() of a transfer with result 0 and a status below
\* 400 other than 0, 200 and 304 throws, arms no new transfer, and leaves
\* the four flags and the files as they are.
C9_UnhandledStatusIsFatal ==
    [][(/\ FinalizeStep
        /\ m_target.result = 0
        /\ m_target.http_status < 400
        /\ m_target.http_status \notin {0, 200, 304}) =>
          /\ last' = [op |-> "finalize_transfer", ret |-> "throw"]
          /\ pc' = "idle"
          /\ m_target' = m_target
          /\ UNCHANGED << flags, files >>]_vars

\* finalize_transfer() has thrown on a status 204.
C9_Witness ==
    /\ last = [op |-> "finalize_transfer", ret |-> "throw"]
    /\ m_target.result = 0
    /\ m_target.http_status = 204
    /\ ~m_download_complete
    /\ pc = "idle"

\* The json object with the members of a and then those of b.
JsonMerge(a, b) ==
    JObj([k \in DOMAIN a.v \cup DOMAIN b.v |->
             IF k \in DOMAIN b.v THEN b.v[k] ELSE a.v[k]])

IsJsonObjectText(s) == JsonParse(s).ok /\ JsonParse(s).val.t = "obj"

\* C10: when a status-200/0 finalize_transfer() has spliced a staged payload
\* that is the text of a json object (the file holds the dumped header, its
\* closing brace replaced by a comma, then the staged bytes from the second
\* on), the json cache file is the text of one json object: the four header
\* fields followed by the payload's fields.
C10_SpliceIsWellFormed ==
    [][(/\ FinalizeStep
        /\ m_target.result = 0
        /\ m_target.http_status \in {0, 200}
        /\ last' = [op |-> "finalize_transfer", ret |-> "true"]
        /\ IsJsonObjectText(m_temp_file.content)
        /\ json_file'.content =
              splice_prefix(header_of(m_repodata_url, m_target))
              \o staged_tail(m_temp_file.content)) =>
          /\ JsonParse(json_file'.content).ok
          /\ JsonParse(json_file'.content).val =
                JsonMerge(header_of(m_repodata_url, m_target),
                          JsonParse(m_temp_file.content).val)]_vars


\* The unescaped double quotes of a text, by json's rule that a backslash
\* escapes exactly the character after it.
RECURSIVE UnescapedQuotes(_, _)
UnescapedQuotes(s, i) ==
    IF i > Len(s) THEN 0
    ELSE IF s[i] = BS THEN UnescapedQuotes(s, i + 2)
    ELSE IF s[i] = Q THEN 1 + UnescapedQuotes(s, i + 1)
    ELSE UnescapedQuotes(s, i + 1)

\* C11: read_mod_and_etag() on a file that begins with four string-valued
\* key/value pairs (values with escaped characters included) and goes on
\* with any payload returns exactly those four pairs; on a file that ends
\* before its 16th unescaped quote it returns the empty (null) result.
C11_ScanRoundTrip ==
    last.op = "read_mod_and_etag" =>
        /\ \A h \in ScanHeaders, p \in ScanPayloads :
              json_file.content = final_content(h, p) => m_mod_etag = h
        /\ UnescapedQuotes(json_file.content, 1) < 16 => m_mod_etag = JNull

\* The digits of the number a max-age=<digits> directive carries, however
\* many, without leading zeros; those of 0 when there is no directive.
DirectiveDigits(val) ==
    LET at == {i \in 1..Len(val) : MaxAgeMatchAt(val, i)} IN
    IF at = {} THEN << "0" >>
    ELSE LET i == CHOOSE k \in at : \A j \in at : k <= j
         IN  StripZeros(DigitRun(val, i + Len(MaxAgeKey)))

\* C12: max_age is the ttl when ttl > 1; when ttl = 1 the number of the
\* cache-control header's max-age directive, 0 when there is none; 0 when
\* ttl <= 0; and computing it never fails, however long the digit string.
C12_MaxAgeSeconds ==
    last.op = "max_age" =>
        /\ ~last.ret.throws
        /\ Digits(last.ret.v) =
              (IF ttl > 1 THEN Digits(ttl)
               ELSE IF ttl = 1
                    THEN DirectiveDigits(m_mod_etag.v[K_cache_control].v)
               ELSE << "0" >>)

\* C13: with a ttl of 0 or less, a load() while online never accepts an
\* existing json cache file, whatever its modification time is relative to
\* the current time: it arms a refresh and sets no flag.
C13_ZeroTtlAlwaysRevalidates ==
    [][(LoadStep /\ ~offline /\ ttl <= 0 /\ json_file.exists) =>
          /\ pc' = "armed"
          /\ m_loaded' = m_loaded
          /\ m_json_cache_valid' = m_json_cache_valid
          /\ m_solv_cache_valid' = m_solv_cache_valid]_vars

\* A finalize_transfer() on the new-content path: the transfer succeeded
\* with status 200 (or 0, a local file).
NewContentStep ==
    /\ FinalizeStep
    /\ m_target.result = 0
    /\ m_target.http_status \in {0, 200}

\* C14: a status-200 finalize_transfer() for a url ending in .bz2 whose
\* decompression fails in any way (the archive cannot be opened, its header
\* cannot be read, a data block cannot be read), with the cache directory in
\* place and the file streams working, still writes the json cache file, sets
\* m_json_cache_valid and m_loaded and returns true.
C14_CorruptArchiveStillFinalizes ==
    [][(/\ NewContentStep
        /\ m_target.http_status = 200
        /\ ends_with(m_repodata_url, Bz2Suffix)
        /\ file_ops'.open = "ok"
        /\ file_ops'.raw \in {"open_failed", "header_failed", "data_failed"}
        /\ file_ops'.io \in {"ok", "not_run"}) =>
          /\ last' = [op |-> "finalize_transfer", ret |-> "true"]
          /\ json_file'.exists
          /\ m_json_cache_valid'
          /\ m_loaded']_vars

\* C15: when, in a status-200/0 finalize_transfer(), the json cache file has
\* been opened and then reading the staging file or writing the json cache
\* file fails, the call is fatal and the json cache file is removed: no
\* truncated file stays on disk, and none is marked valid.
C15_CopyFailureRemovesFile ==
    [][(/\ NewContentStep
        /\ file_ops'.open = "ok"
        /\ file_ops'.io \in {"read_failed", "write_failed"}) =>
          /\ pc' = "exited"
          /\ ~json_file'.exists
          /\ m_json_cache_valid' = m_json_cache_valid]_vars

\* C16: after every return of finalize_transfer(), true (status 304, 200 or
\* 0) or false (a failed transfer), the object owns no staging file.
C16_StagingFileDestroyed ==
    [][(FinalizeStep /\ last'.ret \in {"true", "false"}) =>
          ~m_temp_file'.owned]_vars

\* load() finds a json cache file it may use: the url is not a local file
\* url and the file exists.
UsableCacheFile == ~LocalFileUrl /\ json_file.exists

C18_FailedDecompressKeepsRawBytes ==
    [][(/\ NewContentStep
        /\ file_ops'.raw \in {"open_failed", "header_failed"}) =>
          /\ file_ops'.io = "ok" =>
                json_file'.content =
                    splice_prefix(header_of(m_repodata_url, m_target))
                    \o staged_tail(m_temp_file.content)
          /\ file_ops'.io = "read_failed" => m_temp_file' = m_temp_file]_vars

\* C19: a status-200/0 finalize_transfer() that starts without the cache
\* directory creates it before it opens the json cache file, so the file is
\* opened and the call does not end in "Could not open file".
C19_DirectoryBeforeOpen ==
    [][(NewContentStep /\ ~cache_dir) =>
          /\ cache_dir'
          /\ file_ops'.open = "ok"]_vars

\* C20: whenever m_loaded holds, m_json_cache_valid holds, so cache_path()
\* does not throw while loaded() reports true.
C20_LoadedImpliesJsonValid ==
    m_loaded => (m_json_cache_valid /\ cache_path # "throw")

\* The converse does not hold: a failed finalize_transfer() has cleared
\* m_loaded and left m_json_cache_valid set.
C20_Witness ==
    /\ last = [op |-> "finalize_transfer", ret |-> "false"]
    /\ ~m_loaded
    /\ m_json_cache_valid

=============================================================================
